---- MODULE Spec2Model ----
(***************************************************************************)
(* A model of the probing state machine (Prober) and of the delayed        *)
(* multicast response entry (QueuedResponse) of the ciao mDNS responder.   *)
(*                                                                         *)
(* Time is in milliseconds.  The event loop is single threaded: every      *)
(* action below is one callback run to completion (a timer callback, a     *)
(* send-complete callback, an inbound packet handler) or the passing of    *)
(* time while the loop is idle.                                            *)
(***************************************************************************)
EXTENDS Integers, Sequences, FiniteSets, Bags, TLC

VARIABLES
  now,                  \* the clock, new Date().getTime()
  \* ---- Prober fields ----
  startTime,            \* Prober.startTime
  timer,                \* Prober.timer: deadline of the pending timer the field refers to, or NoTimer
  orphanTimers,         \* pending timers whose handle was overwritten without clearTimeout (bag of deadlines)
  pendingSends,         \* server.sendQuery calls whose callback has not run yet
  sentFirstProbeQuery,  \* Prober.sentFirstProbeQuery
  sentQueries,          \* Prober.sentQueries
  records,              \* Prober.records
  nameIdx,              \* numeric suffix of the service name (CiaoService.incrementName bumps it)
  promise,              \* the promise returned by probe(): "none", "pending", "resolved", "rejected"
  \* ---- observation of the prober (history, no effect on behaviour) ----
  ev,                   \* the callback that ran last, with its input
  obs,                  \* counters and time stamps of what the prober did
  \* ---- the delayed multicast responses ----
  responses,            \* the QueuedResponse objects alive (in the queue or held by a pending
                        \* timer), in order of creation
  qobs,                 \* what the latest step did to a response (history)
  scenario,             \* the coalescing scenario so far: responses enqueued, their delays,
                        \* and the transmissions (history)
  \* ---- calls of the packet and response methods ----
  call,                 \* the latest call of canBeCombinedWith or combineWithNextPacketIfPossible:
                        \* its arguments before and after, and what it returned
  builder,              \* the run of createDNSQueryPackets or createDNSResponsePacketsFromRRSet
                        \* in progress: its locals, and its outcome
  dnsPacket             \* a DNSPacket under its mutators and length reads

proberVars == <<startTime, timer, orphanTimers, pendingSends, sentFirstProbeQuery,
                sentQueries, records, nameIdx, promise, ev, obs>>

queueVars == <<responses, qobs>>

callVars == <<scenario, call, builder, dnsPacket>>

-----------------------------------------------------------------------------
(* Program constants *)

PROBE_INTERVAL == 250
TIEBREAK_WAIT == 1000
MAX_PROBING_TIME == 60000
REQUIRED_PROBES == 3
MAX_DELAY == 500
UDP_PAYLOAD_SIZE_IPV4 == 1440
DNS_PACKET_HEADER_SIZE == 12

(* Bounds of the environment *)

MaxRenames == 1        \* conflicting responses are delivered while nameIdx < MaxRenames
MaxLosses == 1         \* lost tiebreaks delivered at most this often
MaxAnswers == 3        \* records in the list of a definition
MaxPackets == 4        \* packets createDNSQueryPackets makes before the model stops following it
MaxAlive == 2          \* responses alive at once
QueueTicks == 12       \* clock values explored by the response queue, in ticks of QueueTick ms
HorizonTicks == 10     \* width, in ticks, of each of the two windows of clock values that are explored

NoTimer == -1
NoTime == -1

\* how far the clock moves when the loop is idle; Stall is a send whose callback is held up for a minute
Stall == MAX_PROBING_TIME
TickLength == PROBE_INTERVAL \div 2
\* Math.random() * PROBE_INTERVAL, sampled
InitialDelays == {0, TickLength}
TickSteps == {TickLength, Stall}
Horizon == HorizonTicks * TickLength

\* the clock values explored: the first Horizon ms of a run, and the same window one Stall later
InWindow(t) == (t >= 0 /\ t <= Horizon) \/ (t >= Stall /\ t <= Stall + Horizon)

-----------------------------------------------------------------------------
(* Names, records and the tiebreaking order *)

GetFQDN(n) == [kind |-> "fqdn", idx |-> n, upper |-> FALSE]
GetHostname(n) == [kind |-> "host", idx |-> n, upper |-> FALSE]
OtherName == [kind |-> "other", idx |-> 0, upper |-> FALSE]

\* dns-equal: names are compared ignoring case
dnsEqual(a, b) == a.kind = b.kind /\ a.idx = b.idx

RTypeA == 1
RTypePTR == 12
RTypeTXT == 16
RTypeSRV == 33
RTypeAAAA == 28

Rec(name, type, rdata) == [name |-> name, class |-> 1, type |-> type, rdata |-> rdata]

\* the records the service publishes under its current name, in the order sendProbeRequest lists them
ServiceRecords(n) ==
  << Rec(GetFQDN(n), RTypeSRV, <<5, n>>),
     Rec(GetFQDN(n), RTypeTXT, <<7>>),
     Rec(OtherName, RTypePTR, <<n>>),
     Rec(GetHostname(n), RTypeA, <<9>>) >>

HOST == 1
OPPONENT == -1
TIE == 0

RECURSIVE CompareBytes(_, _)
CompareBytes(a, b) ==
  IF a = <<>> /\ b = <<>> THEN 0
  ELSE IF a = <<>> THEN -1
  ELSE IF b = <<>> THEN 1
  ELSE IF Head(a) < Head(b) THEN -1
  ELSE IF Head(a) > Head(b) THEN 1
  ELSE CompareBytes(Tail(a), Tail(b))

\* canonical record order: class, then type, then rdata bytes; negative when a sorts before b
rrComparator(a, b) ==
  IF a.class # b.class THEN (IF a.class < b.class THEN -1 ELSE 1)
  ELSE IF a.type # b.type THEN (IF a.type < b.type THEN -1 ELSE 1)
  ELSE CompareBytes(a.rdata, b.rdata)

RECURSIVE InsertSorted(_, _)
InsertSorted(r, s) ==
  IF s = <<>> THEN <<r>>
  ELSE IF rrComparator(r, Head(s)) < 0 THEN <<r>> \o s
  ELSE <<Head(s)>> \o InsertSorted(r, Tail(s))

\* Array.prototype.sort(rrComparator): a stable sort
RECURSIVE SortRecords(_)
SortRecords(s) ==
  IF s = <<>> THEN <<>>
  ELSE InsertSorted(s[Len(s)], SortRecords(SubSeq(s, 1, Len(s) - 1)))

IsSorted(s) == \A i \in 1..(Len(s) - 1) : rrComparator(s[i], s[i + 1]) <= 0

\* the sorted records of the service under each of its names, sorted once
SortedByName == [n \in 0..(MaxRenames + 1) |-> SortRecords(ServiceRecords(n))]

\* decode(encode({answers: [...]})).answers.sort(rrComparator) for the service named n
SortedServiceRecords(n) ==
  IF n \in DOMAIN SortedByName THEN SortedByName[n] ELSE SortRecords(ServiceRecords(n))

\* the first differing record decides and the holder of the smaller one wins; when one
\* list is a proper prefix of the other the winner is whenExhausted
RECURSIVE runTiebreaking(_, _, _)
runTiebreaking(host, opponent, whenExhausted) ==
  IF host = <<>> /\ opponent = <<>> THEN TIE
  ELSE IF host = <<>> \/ opponent = <<>> THEN whenExhausted
  ELSE LET c == rrComparator(Head(host), Head(opponent))
       IN IF c < 0 THEN HOST
          ELSE IF c > 0 THEN OPPONENT
          ELSE runTiebreaking(Tail(host), Tail(opponent), whenExhausted)

-----------------------------------------------------------------------------
(* The prober as a record, so that one handler can be composed of the methods it calls *)

Cur ==
  [timer |-> timer, orphanTimers |-> orphanTimers, pendingSends |-> pendingSends,
   sentFirstProbeQuery |-> sentFirstProbeQuery, sentQueries |-> sentQueries,
   records |-> records, nameIdx |-> nameIdx, promise |-> promise, obs |-> obs]

Commit(s, e) ==
  /\ timer' = s.timer
  /\ orphanTimers' = s.orphanTimers
  /\ pendingSends' = s.pendingSends
  /\ sentFirstProbeQuery' = s.sentFirstProbeQuery
  /\ sentQueries' = s.sentQueries
  /\ records' = s.records
  /\ nameIdx' = s.nameIdx
  /\ promise' = s.promise
  /\ obs' = s.obs
  /\ ev' = e
  /\ UNCHANGED <<now, startTime>>

InitObs ==
  [totalSent |-> 0,          \* probes handed to server.sendQuery
   sentSinceRestart |-> 0,   \* probes sent since probe() or the latest restart (rename or lost tiebreak)
   firstProbeNo |-> 0,       \* sentQueries + 1 at the first of these probes
   lastAck |-> NoTime,       \* time of the latest send-complete callback, kept while no inbound packet was seen
   lastGap |-> 0,            \* at the latest send, while no inbound packet was seen: the time since the
                             \* previous send completed (since probe() for the first send)
   lossTime |-> NoTime,      \* time of the lost tiebreak, while that is the latest restart
   lossName |-> 0,           \* nameIdx at that loss
   losses |-> 0,             \* lost tiebreaks
   successes |-> 0,          \* calls of promiseResolve (counted up to 2)
   rejects |-> 0,            \* calls of promiseReject (counted up to 2)
   sentAtSuccess |-> 0,      \* sentSinceRestart at the first promiseResolve
   sentAfterOutcome |-> FALSE,  \* a probe was sent after the first promiseResolve or promiseReject
   inbound |-> FALSE]        \* some inbound packet was delivered

promiseResolve(s) ==
  [s EXCEPT !.promise = IF @ = "pending" THEN "resolved" ELSE @,
            !.obs.successes = IF @ < 2 THEN @ + 1 ELSE @,
            !.obs.sentAtSuccess = IF s.obs.successes = 0 THEN s.obs.sentSinceRestart ELSE @]

promiseReject(s) ==
  [s EXCEPT !.promise = IF @ = "pending" THEN "rejected" ELSE @,
            !.obs.rejects = IF @ < 2 THEN @ + 1 ELSE @]

endProbing(s, success) ==
  LET s1 == [s EXCEPT !.timer = NoTimer,
                      !.sentFirstProbeQuery = FALSE,
                      !.sentQueries = 0]
  IN IF success THEN promiseResolve(s1) ELSE s1

sendQuery(s) ==
  [s EXCEPT !.pendingSends = @ + 1,
            !.obs.totalSent = @ + 1,
            !.obs.sentSinceRestart = @ + 1,
            !.obs.firstProbeNo = IF s.obs.sentSinceRestart = 0 THEN s.sentQueries + 1 ELSE @,
            !.obs.lastGap = IF s.obs.inbound THEN 0
                            ELSE now - (IF s.obs.totalSent = 0 THEN startTime ELSE s.obs.lastAck),
            !.obs.sentAfterOutcome = @ \/ s.promise \in {"resolved", "rejected"}]

\* sendProbeRequest that builds the records only while there are none
sendProbeRequestBuildOnce(s) ==
  LET s1 == IF s.records = <<>>
            THEN [s EXCEPT !.records = SortedServiceRecords(s.nameIdx)]
            ELSE s
  IN IF s1.sentQueries >= REQUIRED_PROBES THEN endProbing(s1, TRUE)
     ELSE IF now - startTime > MAX_PROBING_TIME THEN promiseReject(endProbing(s1, FALSE))
     ELSE IF Len(s1.records) = 0 THEN s1
     ELSE sendQuery(s1)

\* sendProbeRequest with the success test off by one
sendProbeRequestOffByOne(s) ==
  LET s1 == IF s.sentQueries = 0
            THEN [s EXCEPT !.records = SortedServiceRecords(s.nameIdx)]
            ELSE s
  IN IF s1.sentQueries > REQUIRED_PROBES THEN endProbing(s1, TRUE)
     ELSE IF now - startTime > MAX_PROBING_TIME THEN promiseReject(endProbing(s1, FALSE))
     ELSE IF Len(s1.records) = 0 THEN s1
     ELSE sendQuery(s1)

\* sendProbeRequest without the test of the time spent probing
sendProbeRequestNoTimeLimit(s) ==
  LET s1 == IF s.sentQueries = 0
            THEN [s EXCEPT !.records = SortedServiceRecords(s.nameIdx)]
            ELSE s
  IN IF s1.sentQueries >= REQUIRED_PROBES THEN endProbing(s1, TRUE)
     ELSE IF Len(s1.records) = 0 THEN s1
     ELSE sendQuery(s1)

sendProbeRequest(s) ==
  LET s1 == IF s.sentQueries = 0
            THEN [s EXCEPT !.records = SortedServiceRecords(s.nameIdx)]
            ELSE s
  IN IF s1.sentQueries >= REQUIRED_PROBES THEN endProbing(s1, TRUE)
     ELSE IF now - startTime > MAX_PROBING_TIME THEN promiseReject(endProbing(s1, FALSE))
     ELSE IF Len(s1.records) = 0 THEN s1     \* the assert throws, nothing is sent
     ELSE sendQuery(s1)

incrementName(s) == [s EXCEPT !.nameIdx = @ + 1]

containsAnswer(s, packet) ==
  \/ \E i \in 1..Len(packet.answers) :
       dnsEqual(packet.answers[i], GetFQDN(s.nameIdx)) \/ dnsEqual(packet.answers[i], GetHostname(s.nameIdx))
  \/ \E i \in 1..Len(packet.additionals) :
       dnsEqual(packet.additionals[i], GetFQDN(s.nameIdx)) \/ dnsEqual(packet.additionals[i], GetHostname(s.nameIdx))

\* handleResponse that restarts the probing without asking for another name
handleResponseKeepName(s, packet) ==
  IF ~s.sentFirstProbeQuery THEN s
  ELSE IF containsAnswer(s, packet)
       THEN LET s1 == endProbing(s, FALSE)
                s2 == [s1 EXCEPT !.obs.sentSinceRestart = 0, !.obs.firstProbeNo = 0,
                                 !.obs.lossTime = NoTime]
            IN sendProbeRequest(s2)
       ELSE s

handleResponse(s, packet) ==
  IF ~s.sentFirstProbeQuery THEN s
  ELSE IF containsAnswer(s, packet)
       THEN LET s1 == endProbing(s, FALSE)
                s2 == [incrementName(s1) EXCEPT !.obs.sentSinceRestart = 0, !.obs.firstProbeNo = 0,
                                                 !.obs.lossTime = NoTime]
            IN sendProbeRequest(s2)
       ELSE s

needsTiebreaking(s, packet) ==
  \E i \in 1..Len(packet.questions) :
    dnsEqual(packet.questions[i], GetFQDN(s.nameIdx)) \/ dnsEqual(packet.questions[i], GetHostname(s.nameIdx))

tiebreakConflict(s, packet) ==
  \/ Len(packet.authorities) = 0
  \/ \E i \in 1..Len(packet.authorities) :
       dnsEqual(packet.authorities[i].name, GetFQDN(s.nameIdx)) \/ dnsEqual(packet.authorities[i].name, GetHostname(s.nameIdx))

\* the lost tiebreak that arms no timer
tiebreakLostNoTimer(s) ==
  [endProbing(s, FALSE) EXCEPT !.obs.lossTime = now,
                               !.obs.lossName = s.nameIdx,
                               !.obs.losses = @ + 1,
                               !.obs.sentSinceRestart = 0,
                               !.obs.firstProbeNo = 0]

tiebreakLost(s) ==
  [endProbing(s, FALSE) EXCEPT !.timer = now + TIEBREAK_WAIT,
                               !.obs.lossTime = now,
                               !.obs.lossName = s.nameIdx,
                               !.obs.losses = @ + 1,
                               !.obs.sentSinceRestart = 0,
                               !.obs.firstProbeNo = 0]

\* doTiebreaking that answers a query without authorities as handleResponse answers a
\* conflicting response
doTiebreakingRename(s, packet, whenExhausted) ==
  IF ~s.sentFirstProbeQuery THEN s
  ELSE IF Len(packet.authorities) = 0
       THEN sendProbeRequest([incrementName(endProbing(s, FALSE)) EXCEPT
                                !.obs.sentSinceRestart = 0, !.obs.firstProbeNo = 0,
                                !.obs.lossTime = NoTime])
  ELSE IF ~tiebreakConflict(s, packet) THEN s
  ELSE LET result == runTiebreaking(s.records, SortRecords(packet.authorities), whenExhausted)
       IN IF result = HOST THEN s
          ELSE IF result = OPPONENT THEN tiebreakLost(s)
          ELSE s

\* doTiebreaking that backs off as well when the two lists are identical
doTiebreakingTieBacksOff(s, packet, whenExhausted) ==
  IF ~s.sentFirstProbeQuery THEN s
  ELSE IF ~tiebreakConflict(s, packet) THEN s
  ELSE LET result == runTiebreaking(s.records, SortRecords(packet.authorities), whenExhausted)
       IN IF result = HOST THEN s
          ELSE IF result = OPPONENT THEN tiebreakLost(s)
          ELSE [endProbing(s, FALSE) EXCEPT !.timer = now + TIEBREAK_WAIT]

doTiebreaking(s, packet, whenExhausted) ==
  IF ~s.sentFirstProbeQuery THEN s
  ELSE IF ~tiebreakConflict(s, packet) THEN s
  ELSE LET result == runTiebreaking(s.records, SortRecords(packet.authorities), whenExhausted)
       IN IF result = HOST THEN s
          ELSE IF result = OPPONENT THEN tiebreakLost(s)
          ELSE s

handleQuery(s, packet, whenExhausted) ==
  IF ~s.sentFirstProbeQuery THEN s
  ELSE IF needsTiebreaking(s, packet) THEN doTiebreaking(s, packet, whenExhausted)
  ELSE s

sendCallback(s) ==
  [s EXCEPT !.pendingSends = @ - 1,
            !.sentFirstProbeQuery = TRUE,
            !.sentQueries = @ + 1,
            !.orphanTimers = IF s.timer # NoTimer THEN @ (+) SetToBag({s.timer}) ELSE @,
            !.timer = now + PROBE_INTERVAL,
            !.obs.lastAck = IF s.obs.inbound THEN NoTime ELSE now]

-----------------------------------------------------------------------------
(* Inbound packets: the names and the records the network may send *)

Upper(name) == [name EXCEPT !.upper = TRUE]

\* responses: without records, about another name, and with an answer or an additional
\* record for a name the service has or had
ResponsePackets ==
  {[answers |-> <<>>, additionals |-> <<>>],
   [answers |-> <<OtherName>>, additionals |-> <<OtherName>>]}
    \cup {[answers |-> <<OtherName, Upper(GetFQDN(i))>>, additionals |-> <<>>] : i \in 0..MaxRenames}
    \cup {[answers |-> <<>>, additionals |-> <<GetHostname(i)>>] : i \in 0..MaxRenames}

\* authority sections: none, records of another name, the service's own records, lists
\* that differ from them in the SRV rdata, and a proper prefix of the sorted list
OpponentAuthorities(i) ==
  {<<>>,
   <<Rec(OtherName, RTypeA, <<9>>)>>,
   ServiceRecords(i),
   [ServiceRecords(i) EXCEPT ![1] = Rec(GetFQDN(i), RTypeSRV, <<4, i>>)],
   [ServiceRecords(i) EXCEPT ![1] = Rec(GetFQDN(i), RTypeSRV, <<6, i>>)],
   <<Rec(GetHostname(i), RTypeA, <<9>>)>>}

\* the authority lists that are a proper prefix of the service's sorted list, or empty
Exhausts(packet) == Len(packet.authorities) <= 1

QueryPackets ==
  {[questions |-> <<OtherName>>, authorities |-> <<>>]}
    \cup {[questions |-> <<Upper(GetFQDN(0))>>, authorities |-> a] : a \in OpponentAuthorities(0)}
    \cup UNION {{[questions |-> <<OtherName, GetHostname(i)>>, authorities |-> a] :
                    a \in {<<>>, [ServiceRecords(i) EXCEPT ![1] = Rec(GetFQDN(i), RTypeSRV, <<4, i>>)]}} :
                 i \in 1..MaxRenames}

PendingTimers == (IF timer # NoTimer THEN {timer} ELSE {}) \cup BagToSet(orphanTimers)

-----------------------------------------------------------------------------
(* The callbacks *)

\* ev records the timer callbacks and the inbound packets that name the service; every
\* other step sets NoEv
NoEv == [op |-> "none", noAuth |-> FALSE]
TimerEv == [op |-> "timer", noAuth |-> FALSE]

\* the packet has a record (for a query: a question) named as the service is now
NamesService(names) ==
  \E i \in 1..Len(names) :
    \E n \in {GetFQDN(nameIdx), GetHostname(nameIdx)} : names[i].kind = n.kind /\ names[i].idx = n.idx

InitProber ==
  /\ startTime = NoTime
  /\ timer = NoTimer
  /\ orphanTimers = EmptyBag
  /\ pendingSends = 0
  /\ sentFirstProbeQuery = FALSE
  /\ sentQueries = 0
  /\ records = <<>>
  /\ nameIdx = 0
  /\ promise = "none"
  /\ ev = NoEv
  /\ obs = InitObs


\* probe()
Probe ==
  /\ promise = "none"
  /\ \E d \in InitialDelays :
       /\ startTime' = now
       /\ promise' = "pending"
       /\ timer' = now + d
  /\ ev' = NoEv
  /\ UNCHANGED <<now, orphanTimers, pendingSends, sentFirstProbeQuery, sentQueries, records, nameIdx, obs>>

\* the timer this.timer refers to fires: sendProbeRequest()
TimerFire ==
  /\ timer # NoTimer
  /\ timer <= now
  /\ Commit(sendProbeRequest([Cur EXCEPT !.timer = NoTimer]), TimerEv)

\* a timer whose handle was overwritten fires: sendProbeRequest()
OrphanTimerFire ==
  \E t \in BagToSet(orphanTimers) :
    /\ t <= now
    /\ Commit(sendProbeRequest([Cur EXCEPT !.orphanTimers = @ (-) SetToBag({t})]), TimerEv)

\* the callback given to server.sendQuery runs
SendComplete ==
  /\ pendingSends > 0
  /\ Commit(sendCallback(Cur), NoEv)

\* handleResponse(packet)
HandleResponse ==
  /\ promise # "none"
  /\ \E packet \in ResponsePackets :
       /\ (sentFirstProbeQuery /\ containsAnswer(Cur, packet)) => nameIdx < MaxRenames
       /\ Commit([handleResponse(Cur, packet) EXCEPT !.obs.inbound = TRUE],
                 IF NamesService(packet.answers \o packet.additionals)
                 THEN [op |-> "handleResponse", noAuth |-> FALSE] ELSE NoEv)

\* handleQuery(packet)
HandleQuery ==
  /\ promise # "none"
  /\ \E packet \in QueryPackets :
     \E whenExhausted \in (IF Exhausts(packet) THEN {HOST, OPPONENT} ELSE {HOST}) :
       LET s == handleQuery(Cur, packet, whenExhausted)
       IN /\ s.obs.losses > obs.losses => obs.losses < MaxLosses
          /\ Commit([s EXCEPT !.obs.inbound = TRUE],
                    IF NamesService(packet.questions)
                    THEN [op |-> "handleQuery", noAuth |-> packet.authorities = <<>>] ELSE NoEv)

\* the loop is idle and the clock moves on, never past a pending timer
Tick ==
  /\ promise # "none"
  /\ PendingTimers # {} \/ pendingSends > 0
  /\ \E d \in TickSteps :
       /\ \A t \in PendingTimers : now + d <= t
       /\ InWindow(now + d)
       /\ now' = now + d
  /\ ev' = NoEv
  /\ UNCHANGED <<startTime, timer, orphanTimers, pendingSends, sentFirstProbeQuery,
                 sentQueries, records, nameIdx, promise, obs>>

-----------------------------------------------------------------------------
(* DNSPacket: the sections, the header fields that decide combining, the length cache *)

QUERY == 0
RESPONSE == 1

\* wire length of a name written in full
NameLength(name) == 16 + 2 * name

\* a resource record: owner name, type, length of the rdata without any name in it, and
\* the name inside the rdata (0 for none); tag tells the records of the model apart
Record(name, type, rdlen, target, tag) ==
  [name |-> name, type |-> type, rdlen |-> rdlen, target |-> target, tag |-> tag]

\* a name costs 2 bytes (a pointer) when the coder has written it before in this packet
NamePart(name, seen, compress) == IF compress /\ name \in seen THEN 2 ELSE NameLength(name)

\* a question: name, type and class; it has the field question to tell it from a record
Question(name, type) ==
  [name |-> name, type |-> type, rdlen |-> 0, target |-> 0, tag |-> 0, question |-> TRUE]

\* getEncodingLength of one record: name, then type, class, ttl and rdlength, then rdata;
\* the SRV target is written in full under legacy unicast encoding.  Of a question: name,
\* then type and class.
RecordLength(r, seen, compress, legacy) ==
  IF "question" \in DOMAIN r THEN NamePart(r.name, seen, compress) + 4
  ELSE NamePart(r.name, seen, compress) + 10 + r.rdlen
         + (IF r.target = 0 THEN 0
            ELSE IF r.type = RTypeSRV /\ legacy THEN NameLength(r.target)
            ELSE NamePart(r.target, seen \cup {r.name}, compress))

RECURSIVE SectionLength(_, _, _, _)
SectionLength(recs, seen, compress, legacy) ==
  IF recs = <<>> THEN 0
  ELSE RecordLength(Head(recs), seen, compress, legacy)
         + SectionLength(Tail(recs),
                         seen \cup {Head(recs).name} \cup (IF Head(recs).target = 0 THEN {} ELSE {Head(recs).target}),
                         compress, legacy)

Sections == {"questions", "answers", "authorities", "additionals"}

AllRecords(p) == p.questions \o p.answers \o p.authorities \o p.additionals

\* the encoded length under a fresh DNSLabelCoder
RealLength(p) ==
  DNS_PACKET_HEADER_SIZE + SectionLength(AllRecords(p), {}, TRUE, p.legacyUnicastEncoding)

\* the length under the NonCompressionLabelCoder
UncompressedLength(r) == RecordLength(r, {}, FALSE, FALSE)

\* new DNSPacket(definition)
NewPacket(id, type, flags, legacyUnicast, answers) ==
  [id |-> id, type |-> type, opcode |-> 0, rcode |-> 0, flags |-> flags,
   legacyUnicastEncoding |-> legacyUnicast,
   questions |-> <<>>, answers |-> answers, authorities |-> <<>>, additionals |-> <<>>,
   estimatedEncodingLength |-> 0, lastCalculatedLength |-> 0, lengthDirty |-> TRUE]

\* getEncodingLength(): the packet with its cache updated, and the length returned
getEncodingLength(p) ==
  IF ~p.lengthDirty THEN [packet |-> p, length |-> p.lastCalculatedLength]
  ELSE LET length == RealLength(p)
       IN [packet |-> [p EXCEPT !.lengthDirty = FALSE,
                                !.lastCalculatedLength = length,
                                !.estimatedEncodingLength = length],
           length |-> length]

\* canBeCombinedWith that does not compare the response codes
canBeCombinedWithAnyRcode(this, packet, udpPayloadSize) ==
  IF /\ this.id = packet.id /\ this.type = packet.type
     /\ this.opcode = packet.opcode /\ this.flags = packet.flags
  THEN LET a == getEncodingLength(this)
           b == getEncodingLength(packet)
       IN [result |-> a.length + b.length <= udpPayloadSize, this |-> a.packet, packet |-> b.packet]
  ELSE [result |-> FALSE, this |-> this, packet |-> packet]

\* this.canBeCombinedWith(packet, udpPayloadSize); both length caches may be refreshed
canBeCombinedWith(this, packet, udpPayloadSize) ==
  IF /\ this.id = packet.id /\ this.type = packet.type
     /\ this.opcode = packet.opcode /\ this.flags = packet.flags
     /\ this.rcode = packet.rcode
  THEN LET a == getEncodingLength(this)
           b == getEncodingLength(packet)
       IN [result |-> a.length + b.length <= udpPayloadSize, this |-> a.packet, packet |-> b.packet]
  ELSE [result |-> FALSE, this |-> this, packet |-> packet]

\* setLegacyUnicastEncoding that leaves the dirty flag as it is
setLegacyUnicastEncodingKeepCache(p, legacyUnicastEncoding) ==
  [p EXCEPT !.legacyUnicastEncoding = legacyUnicastEncoding]

setLegacyUnicastEncoding(p, legacyUnicastEncoding) ==
  [p EXCEPT !.lengthDirty = @ \/ (p.legacyUnicastEncoding # legacyUnicastEncoding),
            !.legacyUnicastEncoding = legacyUnicastEncoding]

\* addRecords(recordList, added), the list named by its section
RECURSIVE addRecords(_, _, _)
addRecords(p, section, added) ==
  IF added = <<>> THEN p
  ELSE LET record == Head(added)
           p1 == [p EXCEPT !.estimatedEncodingLength =
                              IF @ # 0 THEN @ + UncompressedLength(record) ELSE @,
                           !.lengthDirty = TRUE,
                           ![section] = Append(@, record)]
       IN addRecords(p1, section, Tail(added))

\* combineWith that leaves the encoding of the receiver as it is
combineWithKeepEncoding(this, packet) ==
  LET p1 == addRecords(this, "questions", packet.questions)
      p2 == addRecords(p1, "answers", packet.answers)
      p3 == addRecords(p2, "authorities", packet.authorities)
  IN addRecords(p3, "additionals", packet.additionals)

\* this.combineWith(packet)
combineWith(this, packet) ==
  LET p0 == setLegacyUnicastEncoding(this, this.legacyUnicastEncoding \/ packet.legacyUnicastEncoding)
      p1 == addRecords(p0, "questions", packet.questions)
      p2 == addRecords(p1, "answers", packet.answers)
      p3 == addRecords(p2, "authorities", packet.authorities)
  IN addRecords(p3, "additionals", packet.additionals)

\* getEstimatedEncodingLength(): the packet with its estimate filled in, and the estimate
getEstimatedEncodingLength(p) ==
  IF p.estimatedEncodingLength # 0 THEN [packet |-> p, length |-> p.estimatedEncodingLength]
  ELSE LET length == DNS_PACKET_HEADER_SIZE + SectionLength(AllRecords(p), {}, FALSE, FALSE)
       IN [packet |-> [p EXCEPT !.estimatedEncodingLength = length], length |-> length]

\* two records represent the same data: same name, type and class (all records are IN)
representsSameData(record0, record) == record0.name = record.name /\ record0.type = record.type

\* the same data, and the same rdata bytes
dataEquals(record0, record) ==
  /\ representsSameData(record0, record)
  /\ record0.rdlen = record.rdlen /\ record0.target = record.target /\ record0.tag = record.tag

\* replaceExistingRecord(recordList, record) from index i on: the packet after it and
\* what it returns
RECURSIVE replaceExistingRecord(_, _, _, _)
replaceExistingRecord(p, section, record, i) ==
  IF i > Len(p[section]) THEN [packet |-> p, overwrittenSome |-> FALSE]
  ELSE LET record0 == p[section][i]
       IN IF representsSameData(record0, record)
             /\ record.flushFlag /\ record.type # RTypeA /\ record.type # RTypeAAAA
          THEN [packet |-> [p EXCEPT ![section][i] = record, !.lengthDirty = TRUE],
                overwrittenSome |-> TRUE]
          ELSE IF representsSameData(record0, record) /\ dataEquals(record0, record)
          THEN [packet |-> [p EXCEPT ![section][i].ttl = record.ttl], overwrittenSome |-> TRUE]
          ELSE replaceExistingRecord(p, section, record, i + 1)

\* removeAboutSameRecord(recordList, record) from index i on
RECURSIVE removeAboutSameRecord(_, _, _, _)
removeAboutSameRecord(p, section, record, i) ==
  IF i > Len(p[section]) THEN p
  ELSE LET record0 == p[section][i]
       IN IF /\ representsSameData(record0, record)
             /\ \/ record.flushFlag /\ record.type # RTypeA /\ record.type # RTypeAAAA
                \/ dataEquals(record0, record)
          THEN [p EXCEPT ![section] = SubSeq(@, 1, i - 1) \o SubSeq(@, i + 1, Len(@)),
                         !.lengthDirty = TRUE]
          ELSE removeAboutSameRecord(p, section, record, i + 1)

\* flags: {}
NoFlags == [f \in {} |-> TRUE]

Truncated(p) == "truncation" \in DOMAIN p.flags /\ p.flags.truncation

\* answers.sort(...) ascending on the uncompressed length; the sort is stable
RECURSIVE SortByLength(_)
SortByLength(recs) ==
  IF recs = <<>> THEN <<>>
  ELSE LET sorted == SortByLength(SubSeq(recs, 1, Len(recs) - 1))
           last == recs[Len(recs)]
           before == SelectSeq(sorted, LAMBDA r : UncompressedLength(r) <= UncompressedLength(last))
           after == SelectSeq(sorted, LAMBDA r : UncompressedLength(r) > UncompressedLength(last))
       IN before \o <<last>> \o after

isQuery(definition) == "answers" \in DOMAIN definition
isProbeQuery(definition) == "authorities" \in DOMAIN definition

\* createDNSQueryPackets that returns a probe query of any length
createDNSQueryPacketsAnyProbe(definition, udpPayloadSize) ==
  LET main == [NewPacket(0, QUERY, NoFlags, FALSE, <<>>) EXCEPT !.questions = definition.questions]
      e == getEstimatedEncodingLength(main)
      r == IF e.length > udpPayloadSize THEN getEncodingLength(e.packet)
           ELSE [packet |-> e.packet, length |-> 0]
      start == [phase |-> "loop",
                op |-> IF isQuery(definition) THEN "query"
                       ELSE IF isProbeQuery(definition) THEN "probe" ELSE "questions",
                definition |-> definition, udpPayloadSize |-> udpPayloadSize,
                packets |-> <<r.packet>>, currentPacket |-> 1, i |-> 1, answers |-> <<>>,
                added |-> <<>>]
  IN IF r.length > udpPayloadSize THEN [start EXCEPT !.phase = "failed"]
     ELSE IF isQuery(definition)
     THEN [start EXCEPT !.answers = SortByLength(definition.answers),
                        !.phase = IF definition.answers = <<>> THEN "returned" ELSE "loop"]
     ELSE IF isProbeQuery(definition)
     THEN LET c == getEncodingLength(addRecords(r.packet, "authorities", definition.authorities))
          IN [start EXCEPT !.packets = <<c.packet>>,
                           !.phase = "returned"]
     ELSE [start EXCEPT !.phase = "returned"]

\* createDNSQueryPackets up to its loop: the main packet, the check of the question
\* section, the sorted copy of the known answers; for a probe query, up to the return.
\* The result holds the locals, and in phase how far the call has come.
createDNSQueryPackets(definition, udpPayloadSize) ==
  LET main == [NewPacket(0, QUERY, NoFlags, FALSE, <<>>) EXCEPT !.questions = definition.questions]
      e == getEstimatedEncodingLength(main)
      r == IF e.length > udpPayloadSize THEN getEncodingLength(e.packet)
           ELSE [packet |-> e.packet, length |-> 0]
      start == [phase |-> "loop",
                op |-> IF isQuery(definition) THEN "query"
                       ELSE IF isProbeQuery(definition) THEN "probe" ELSE "questions",
                definition |-> definition, udpPayloadSize |-> udpPayloadSize,
                packets |-> <<r.packet>>, currentPacket |-> 1, i |-> 1, answers |-> <<>>,
                added |-> <<>>]
  IN IF r.length > udpPayloadSize THEN [start EXCEPT !.phase = "failed"]
     ELSE IF isQuery(definition)
     THEN [start EXCEPT !.answers = SortByLength(definition.answers),
                        !.phase = IF definition.answers = <<>> THEN "returned" ELSE "loop"]
     ELSE IF isProbeQuery(definition)
     THEN LET c == getEncodingLength(addRecords(r.packet, "authorities", definition.authorities))
          IN [start EXCEPT !.packets = <<c.packet>>,
                           !.phase = IF c.length > udpPayloadSize THEN "failed" ELSE "returned"]
     ELSE [start EXCEPT !.phase = "returned"]

\* the for loop of createDNSQueryPackets, from answers[i] on, until it breaks or runs out
\* of answers.  packets[1] is packet, packets[currentPacket] is currentPacket.  added
\* tells of each answer added: the packet it went into, whether a size check let it in,
\* and the questions and answers that packet held before.
RECURSIVE ForLoop(_)
ForLoop(b) ==
  IF b.i > Len(b.answers) THEN b
  ELSE LET answer == b.answers[b.i]
           estimatedSize == UncompressedLength(answer)
           e == getEstimatedEncodingLength(b.packets[1])
           r == getEncodingLength(e.packet)
           AddTo(ps, k, fits) ==
             [b EXCEPT !.packets = [ps EXCEPT ![k] = addRecords(@, "answers", <<answer>>)],
                       !.added = Append(@, [into |-> k, fits |-> fits,
                                            questions |-> Len(ps[k].questions),
                                            answers |-> Len(ps[k].answers)])]
       IN IF e.length + estimatedSize <= b.udpPayloadSize
          THEN ForLoop([AddTo([b.packets EXCEPT ![1] = e.packet], b.currentPacket, TRUE)
                          EXCEPT !.i = @ + 1])
          ELSE IF r.length + estimatedSize <= b.udpPayloadSize
          THEN ForLoop([AddTo([b.packets EXCEPT ![1] = r.packet], b.currentPacket, TRUE)
                          EXCEPT !.i = @ + 1])
          ELSE LET ps == [b.packets EXCEPT ![1] = r.packet]
               IN IF ps[b.currentPacket].questions = <<>> /\ ps[b.currentPacket].answers = <<>>
                  THEN AddTo(ps, 1, FALSE)
                  ELSE [b EXCEPT !.packets = ps]

\* one pass of the while loop of createDNSQueryPackets: the for loop, then the next
\* packet if answers are left; the call returns when none is left
WhileLoop(b) ==
  LET f == ForLoop([b EXCEPT !.added = <<>>])
  IN IF f.i <= Len(f.answers)
     THEN [f EXCEPT !.packets = Append([@ EXCEPT ![f.currentPacket].flags =
                                                   [truncation |-> TRUE] @@ @],
                                       NewPacket(0, QUERY, NoFlags, FALSE, <<>>)),
                    !.currentPacket = Len(f.packets) + 1]
     ELSE [f EXCEPT !.phase = "returned"]

\* createDNSResponsePacketsFromRRSet that does not set the authoritative answer flag
createDNSResponsePacketsNoAA(definition, udpPayloadSize) ==
  LET packet == [NewPacket(IF "id" \in DOMAIN definition THEN definition.id ELSE 0, RESPONSE,
                           NoFlags, definition.legacyUnicast, definition.answers)
                   EXCEPT !.questions = definition.questions,
                          !.additionals = definition.additionals]
      c == getEncodingLength(packet)
  IN [phase |-> IF c.length > udpPayloadSize THEN "failed" ELSE "returned",
      op |-> "response", definition |-> definition, udpPayloadSize |-> udpPayloadSize,
      packets |-> <<c.packet>>, currentPacket |-> 1, i |-> 1, answers |-> <<>>, added |-> <<>>]

\* createDNSResponsePacketsFromRRSet(definition, udpPayloadSize)
createDNSResponsePacketsFromRRSet(definition, udpPayloadSize) ==
  LET packet == [NewPacket(IF "id" \in DOMAIN definition THEN definition.id ELSE 0, RESPONSE,
                           [authoritativeAnswer |-> TRUE], definition.legacyUnicast,
                           definition.answers)
                   EXCEPT !.questions = definition.questions,
                          !.additionals = definition.additionals]
      c == getEncodingLength(packet)
  IN [phase |-> IF c.length > udpPayloadSize THEN "failed" ELSE "returned",
      op |-> "response", definition |-> definition, udpPayloadSize |-> udpPayloadSize,
      packets |-> <<c.packet>>, currentPacket |-> 1, i |-> 1, answers |-> <<>>, added |-> <<>>]

-----------------------------------------------------------------------------
(* QueuedResponse *)

\* new QueuedResponse(packet, interfaceName).  Three fields are not the object's: queued
\* (the object is in the list of waiting responses), earliest (the creation time of the
\* oldest response whose records the packet holds; history) and scheduledAfterMerge
\* (scheduleResponse was called when delayed was set; history).
NewQueuedResponse(packet, interfaceName) ==
  [packet |-> packet, interfaceName |-> interfaceName, timeOfCreation |-> now,
   estimatedTimeToBeSent |-> 0, delay |-> -1, timer |-> NoTimer, delayed |-> FALSE,
   queued |-> TRUE, earliest |-> now, scheduledAfterMerge |-> FALSE]

\* getTotalDelay()
getTotalDelay(r) == now - r.timeOfCreation

\* calculateRandomDelay(), random being the value of Math.random() * 100 + 20
calculateRandomDelay(r, random) ==
  [r EXCEPT !.delay = random, !.estimatedTimeToBeSent = now + random]

\* scheduleResponse(callback)
scheduleResponse(r) == [r EXCEPT !.timer = now + r.delay]

\* a check that lets every merge pass
delayWouldBeInTimelyMannerAlways(this, next) == TRUE

delayWouldBeInTimelyManner(this, next) ==
  next.estimatedTimeToBeSent - this.timeOfCreation <= MAX_DELAY

Min(a, b) == IF a < b THEN a ELSE b

\* combineWithNextPacketIfPossible that leaves the timer of the merged response running
combineWithNextPacketKeepTimer(this, next, udpPayloadSize) ==
  IF this.interfaceName # next.interfaceName
  THEN [result |-> FALSE, this |-> this, next |-> next]
  ELSE LET c == canBeCombinedWith(next.packet, this.packet, udpPayloadSize)
       IN IF ~c.result
          THEN [result |-> FALSE,
                this |-> [this EXCEPT !.packet = c.packet],
                next |-> [next EXCEPT !.packet = c.this]]
          ELSE [result |-> TRUE,
                this |-> [this EXCEPT !.packet = c.packet, !.delayed = TRUE],
                next |-> [next EXCEPT !.packet = combineWith(c.this, c.packet),
                                      !.timeOfCreation = Min(this.timeOfCreation, @)]]

\* combineWithNextPacketIfPossible that does not mark the merged response
combineWithNextPacketNoFlag(this, next, udpPayloadSize) ==
  IF this.interfaceName # next.interfaceName
  THEN [result |-> FALSE, this |-> this, next |-> next]
  ELSE LET c == canBeCombinedWith(next.packet, this.packet, udpPayloadSize)
       IN IF ~c.result
          THEN [result |-> FALSE,
                this |-> [this EXCEPT !.packet = c.packet],
                next |-> [next EXCEPT !.packet = c.this]]
          ELSE [result |-> TRUE,
                this |-> [this EXCEPT !.packet = c.packet, !.timer = NoTimer],
                next |-> [next EXCEPT !.packet = combineWith(c.this, c.packet),
                                      !.timeOfCreation = Min(this.timeOfCreation, @)]]

\* combineWithNextPacketIfPossible that leaves the time of creation of next as it is
combineWithNextPacketKeepCreation(this, next, udpPayloadSize) ==
  IF this.interfaceName # next.interfaceName
  THEN [result |-> FALSE, this |-> this, next |-> next]
  ELSE LET c == canBeCombinedWith(next.packet, this.packet, udpPayloadSize)
       IN IF ~c.result
          THEN [result |-> FALSE,
                this |-> [this EXCEPT !.packet = c.packet],
                next |-> [next EXCEPT !.packet = c.this]]
          ELSE [result |-> TRUE,
                this |-> [this EXCEPT !.packet = c.packet, !.timer = NoTimer, !.delayed = TRUE],
                next |-> [next EXCEPT !.packet = combineWith(c.this, c.packet)]]

\* combineWithNextPacketIfPossible that gives next the later of the two times of creation
combineWithNextPacketLatestCreation(this, next, udpPayloadSize) ==
  IF this.interfaceName # next.interfaceName
  THEN [result |-> FALSE, this |-> this, next |-> next]
  ELSE LET c == canBeCombinedWith(next.packet, this.packet, udpPayloadSize)
       IN IF ~c.result
          THEN [result |-> FALSE,
                this |-> [this EXCEPT !.packet = c.packet],
                next |-> [next EXCEPT !.packet = c.this]]
          ELSE [result |-> TRUE,
                this |-> [this EXCEPT !.packet = c.packet, !.timer = NoTimer, !.delayed = TRUE],
                next |-> [next EXCEPT !.packet = combineWith(c.this, c.packet),
                                      !.timeOfCreation =
                                         IF this.timeOfCreation > @ THEN this.timeOfCreation ELSE @]]

\* combineWithNextPacketIfPossible that merges responses of different interfaces
combineWithNextPacketAnyInterface(this, next, udpPayloadSize) ==
  LET c == canBeCombinedWith(next.packet, this.packet, udpPayloadSize)
  IN IF ~c.result
     THEN [result |-> FALSE,
           this |-> [this EXCEPT !.packet = c.packet],
           next |-> [next EXCEPT !.packet = c.this]]
     ELSE [result |-> TRUE,
           this |-> [this EXCEPT !.packet = c.packet, !.timer = NoTimer, !.delayed = TRUE],
           next |-> [next EXCEPT !.packet = combineWith(c.this, c.packet),
                                 !.timeOfCreation = Min(this.timeOfCreation, @)]]

\* this.combineWithNextPacketIfPossible(next, udpPayloadSize)
combineWithNextPacketIfPossible(this, next, udpPayloadSize) ==
  IF this.interfaceName # next.interfaceName
  THEN [result |-> FALSE, this |-> this, next |-> next]
  ELSE LET c == canBeCombinedWith(next.packet, this.packet, udpPayloadSize)
       IN IF ~c.result
          THEN [result |-> FALSE,
                this |-> [this EXCEPT !.packet = c.packet],
                next |-> [next EXCEPT !.packet = c.this]]
          ELSE [result |-> TRUE,
                this |-> [this EXCEPT !.packet = c.packet, !.timer = NoTimer, !.delayed = TRUE],
                next |-> [next EXCEPT !.packet = combineWith(c.this, c.packet),
                                      !.timeOfCreation = Min(this.timeOfCreation, @)]]

-----------------------------------------------------------------------------
(* The response queue: enqueue, merge, dispatch *)

InterfaceNames == {"en0", "en1"}
\* Math.random() * 100 + 20, sampled
RandomDelays == {50, 100}
\* the records a response may carry: two TXT records of one name
AnswerRecords == {Record(1, RTypeTXT, 200, 0, 1)}
QueueTick == MAX_DELAY \div 10

InitQueue ==
  /\ responses = <<>>
  /\ qobs = [merged |-> <<>>, sent |-> <<>>, cancelledRan |-> FALSE]

\* an object is garbage once it has left the queue and no timer holds its callback
Alive(rs) == SelectSeq(rs, LAMBDA r : r.queued \/ r.timer # NoTimer)

\* the merge step of the queue for an earlier and a later scheduled response: the timely
\* manner check, then the combine; the merged response leaves the queue
MergeInto(rs, earlier, later) ==
  IF ~delayWouldBeInTimelyManner(rs[earlier], rs[later])
  THEN [responses |-> rs, merged |-> <<>>]
  ELSE LET c == combineWithNextPacketIfPossible(rs[earlier], rs[later], UDP_PAYLOAD_SIZE_IPV4)
       IN IF c.result
          THEN [responses |-> [rs EXCEPT ![earlier] = [c.this EXCEPT !.queued = FALSE],
                                         ![later] = [c.next EXCEPT !.earliest = Min(rs[earlier].earliest, @)]],
                merged |-> <<[delayed |-> c.this.delayed, timer |-> c.this.timer,
                              hadTimer |-> rs[earlier].timer # NoTimer]>>]
          ELSE [responses |-> [rs EXCEPT ![earlier] = c.this, ![later] = c.next],
                merged |-> <<>>]

\* the enqueue of a response, given the list of responses: it gets its delay, and
\* scheduleResponse is called either before or after the attempt to merge it with a
\* waiting response (partner, 0 for none)
EnqueueResult(rs0, interfaceName, random, answer, scheduleFirst, partner) ==
  LET id == Len(rs0) + 1
      packet == NewPacket(0, RESPONSE, [authoritativeAnswer |-> TRUE], FALSE, <<answer>>)
      r0 == calculateRandomDelay(NewQueuedResponse(packet, interfaceName), random)
      r1 == IF scheduleFirst THEN scheduleResponse(r0) ELSE r0
      rs == Append(rs0, r1)
      m == IF partner = 0 THEN [responses |-> rs, merged |-> <<>>]
           ELSE IF r1.estimatedTimeToBeSent < rs0[partner].estimatedTimeToBeSent
                THEN MergeInto(rs, id, partner)
                ELSE MergeInto(rs, partner, id)
      scheduled == IF ~scheduleFirst
                   THEN [m.responses EXCEPT ![id] =
                           [scheduleResponse(@) EXCEPT !.scheduledAfterMerge = @ \/ m.responses[id].delayed]]
                   ELSE m.responses
  IN [responses |-> scheduled, merged |-> m.merged]

\* a response is enqueued
Enqueue ==
  /\ Len(responses) < MaxAlive
  /\ \E interfaceName \in InterfaceNames, random \in RandomDelays, answer \in AnswerRecords,
        scheduleFirst \in BOOLEAN, partner \in 0..Len(responses) :
       /\ partner # 0 => responses[partner].queued
       /\ \E e \in {EnqueueResult(responses, interfaceName, random, answer, scheduleFirst, partner)} :
            /\ responses' = Alive(e.responses)
            /\ qobs' = [qobs EXCEPT !.merged = e.merged, !.sent = <<>>]
  /\ UNCHANGED now

\* two waiting responses are merged before they are dispatched
MergeWaiting ==
  /\ \E earlier, later \in 1..Len(responses) :
       /\ earlier # later
       /\ responses[earlier].queued /\ responses[later].queued
       /\ responses[earlier].estimatedTimeToBeSent <= responses[later].estimatedTimeToBeSent
       /\ LET m == MergeInto(responses, earlier, later)
          IN /\ m.merged # <<>>
             /\ responses' = Alive(m.responses)
             /\ qobs' = [qobs EXCEPT !.merged = m.merged, !.sent = <<>>]
  /\ UNCHANGED now

\* the timer of a response fires: it leaves the queue and, unless it was merged away,
\* its packet is handed to the server
Dispatch ==
  /\ \E id \in 1..Len(responses) :
       /\ responses[id].timer # NoTimer
       /\ responses[id].timer <= now
       /\ responses' = Alive([responses EXCEPT ![id].timer = NoTimer, ![id].queued = FALSE])
       /\ qobs' = [qobs EXCEPT !.merged = <<>>,
                               !.sent = IF responses[id].delayed THEN <<>>
                                        ELSE <<[at |-> now, earliest |-> responses[id].earliest,
                                                interfaceName |-> responses[id].interfaceName,
                                                answers |-> responses[id].packet.answers]>>,
                               !.cancelledRan = @ \/ responses[id].delayed]
  /\ UNCHANGED now

QueueTimers == {responses[id].timer : id \in 1..Len(responses)} \ {NoTimer}

\* the loop is idle and the clock moves on, never past a pending timer
QueueTickPasses ==
  /\ QueueTimers # {}
  /\ \A t \in QueueTimers : now + QueueTick <= t
  /\ now + QueueTick <= QueueTicks * QueueTick
  /\ now' = now + QueueTick
  /\ qobs' = [qobs EXCEPT !.merged = <<>>, !.sent = <<>>]
  /\ UNCHANGED responses

-----------------------------------------------------------------------------
(* The specifications *)

vars == <<now, proberVars, queueVars, callVars>>

InitCalls ==
  /\ scenario = [enqueued |-> 0, delays |-> <<>>, waiting |-> FALSE, timeOfCreation |-> NoTime,
                 sent |-> <<>>]
  /\ call = [op |-> "none"]
  /\ builder = [phase |-> "idle"]
  /\ dnsPacket = NewPacket(0, RESPONSE, [authoritativeAnswer |-> TRUE], FALSE, <<>>)

Init == now = 0 /\ InitProber /\ InitQueue /\ InitCalls

\* the prober alone
Next ==
  \/ Probe /\ UNCHANGED <<queueVars, callVars>>
  \/ TimerFire /\ UNCHANGED <<queueVars, callVars>>
  \/ OrphanTimerFire /\ UNCHANGED <<queueVars, callVars>>
  \/ SendComplete /\ UNCHANGED <<queueVars, callVars>>
  \/ HandleResponse /\ UNCHANGED <<queueVars, callVars>>
  \/ HandleQuery /\ UNCHANGED <<queueVars, callVars>>
  \/ Tick /\ UNCHANGED <<queueVars, callVars>>

Spec == Init /\ [][Next]_vars

\* what the event loop does of its own: it runs a due timer or the callback of a send,
\* or idles while the clock moves on
EventLoop ==
  (TimerFire \/ OrphanTimerFire \/ SendComplete \/ Tick) /\ UNCHANGED <<queueVars, callVars>>

\* the prober under an event loop that does not stop while it has something to run or to
\* wait for
SpecFair == Init /\ [][Next]_vars /\ WF_vars(EventLoop)

\* the response queue alone
NextQueue ==
  \/ Enqueue /\ UNCHANGED <<proberVars, callVars>>
  \/ MergeWaiting /\ UNCHANGED <<proberVars, callVars>>
  \/ Dispatch /\ UNCHANGED <<proberVars, callVars>>
  \/ QueueTickPasses /\ UNCHANGED <<proberVars, callVars>>

SpecQueue == Init /\ [][NextQueue]_vars

-----------------------------------------------------------------------------
(* The coalescing scenario: response A is enqueued at 0 ms and response B at 30 ms, both
   for one interface, with equal headers and records that fit one packet *)

ScenarioArrivals == <<0, 30>>
ScenarioRecords == <<Record(1, RTypeTXT, 200, 0, 1), Record(2, RTypeA, 4, 0, 2)>>
\* Math.random() * 100 + 20, sampled over the whole of [20, 120)
ScenarioDelays == {20, 25, 29, 30, 31, 40, 60, 89, 90, 91, 100, 119}

\* the next response of the scenario is enqueued at its time; the queue tries to merge it
\* with the response that is waiting, if there is one
ScenarioEnqueue ==
  /\ scenario.enqueued < Len(ScenarioArrivals)
  /\ now = ScenarioArrivals[scenario.enqueued + 1]
  /\ \E random \in ScenarioDelays, scheduleFirst \in BOOLEAN :
     \E partner \in 0..Len(responses) :
       /\ partner # 0 => responses[partner].queued
       /\ partner = 0 => \A i \in 1..Len(responses) : ~responses[i].queued
       /\ \E e \in {EnqueueResult(responses, "en0", random, ScenarioRecords[scenario.enqueued + 1],
                                   scheduleFirst, partner)} :
            /\ responses' = Alive(e.responses)
            /\ qobs' = [qobs EXCEPT !.merged = e.merged, !.sent = <<>>]
            /\ scenario' = [scenario EXCEPT
                              !.enqueued = @ + 1,
                              !.delays = Append(@, random),
                              !.waiting = partner # 0,
                              !.timeOfCreation = e.responses[Len(responses) + 1].timeOfCreation]
  /\ UNCHANGED now

\* a timer fires; what is handed to the server is added to the transmissions
ScenarioDispatch ==
  /\ Dispatch
  /\ scenario' = [scenario EXCEPT !.sent = @ \o qobs'.sent]

\* the clock moves on to the next timer or arrival
ScenarioTimePasses ==
  LET events == QueueTimers \cup (IF scenario.enqueued < Len(ScenarioArrivals)
                                  THEN {ScenarioArrivals[scenario.enqueued + 1]} ELSE {})
  IN /\ events # {}
     /\ \A t \in events : t > now
     /\ now' = CHOOSE t \in events : \A u \in events : t <= u
     /\ qobs' = [qobs EXCEPT !.merged = <<>>, !.sent = <<>>]
     /\ UNCHANGED <<responses, scenario>>

NextCoalesce ==
  \/ ScenarioEnqueue /\ UNCHANGED <<proberVars, call, builder, dnsPacket>>
  \/ ScenarioDispatch /\ UNCHANGED <<proberVars, call, builder, dnsPacket>>
  \/ ScenarioTimePasses /\ UNCHANGED <<proberVars, call, builder, dnsPacket>>

SpecCoalesce == Init /\ [][NextCoalesce]_vars

-----------------------------------------------------------------------------
(* Calls of canBeCombinedWith and combineWithNextPacketIfPossible on their own *)

\* records of three sizes under one name: two that fit a packet together only when the
\* name of the second is compressed, and one that fills most of a packet
CallRecords == <<Record(1, RTypeTXT, 30, 0, 1), Record(1, RTypeTXT, 685, 0, 2),
                 Record(1, RTypeTXT, 1000, 0, 3)>>

CallAnswers == {<<>>, <<CallRecords[1]>>, <<CallRecords[2]>>, <<CallRecords[3]>>,
                <<CallRecords[1], CallRecords[2]>>}

\* packets whose headers differ in one field each from the first one
CallHeaders ==
  LET base == NewPacket(0, RESPONSE, [authoritativeAnswer |-> TRUE], FALSE, <<>>)
  IN {base,
      [base EXCEPT !.id = 1],
      [base EXCEPT !.type = QUERY],
      [base EXCEPT !.opcode = 1],
      [base EXCEPT !.rcode = 1],
      [base EXCEPT !.flags = [authoritativeAnswer |-> TRUE, truncation |-> TRUE]],
      [base EXCEPT !.flags = [authoritativeAnswer |-> FALSE]]}

\* the packets handed to the calls: built by the constructor, some of them encoded once
\* (their length cache is filled)
CallPackets ==
  UNION {{[h EXCEPT !.answers = answers], getEncodingLength([h EXCEPT !.answers = answers]).packet}
           : h \in CallHeaders, answers \in CallAnswers}

\* two responses to unicast queries, with records in other sections than the answers,
\* one of them for a legacy unicast querier
CallFullPackets ==
  {[NewPacket(0, RESPONSE, [authoritativeAnswer |-> TRUE], TRUE, <<CallRecords[1]>>)
      EXCEPT !.questions = <<Question(1, RTypePTR)>>,
             !.additionals = <<Record(2, RTypeSRV, 6, 1, 4)>>],
   [NewPacket(0, RESPONSE, [authoritativeAnswer |-> TRUE], FALSE, <<CallRecords[2]>>)
      EXCEPT !.questions = <<Question(2, RTypePTR)>>,
             !.authorities = <<Record(1, RTypeA, 4, 0, 5)>>]}

\* a response created at time t, with the delay it drew
CreatedAt(t, packet, interfaceName, random) ==
  [NewQueuedResponse(packet, interfaceName) EXCEPT
     !.timeOfCreation = t, !.earliest = t, !.delay = random, !.estimatedTimeToBeSent = t + random]

CallTimes == {0, MAX_DELAY}

\* the responses handed to combineWithNextPacketIfPossible: waiting with or without a
\* timer, or marked delayed by an earlier merge
CallResponses ==
  LET packets == {p \in CallPackets : p.id = 0 /\ p.opcode = 0 /\ p.rcode = 0 /\ p.type = RESPONSE
                                        /\ p.flags = [authoritativeAnswer |-> TRUE]
                                        /\ Len(p.answers) = 1 /\ p.lengthDirty}
                   \cup CallFullPackets
  IN UNION {{[CreatedAt(t, p, interfaceName, random) EXCEPT
                !.timer = IF scheduled THEN t + random ELSE NoTimer, !.delayed = delayed]
               : p \in packets, interfaceName \in InterfaceNames, scheduled \in BOOLEAN,
                 delayed \in BOOLEAN}
              : t \in CallTimes, random \in RandomDelays}

\* this.canBeCombinedWith(packet, udpPayloadSize) is called; each behaviour makes one call
CallCanBeCombinedWith ==
  /\ call.op = "none"
  /\ \E this \in CallPackets, packet \in CallPackets :
       LET c == canBeCombinedWith(this, packet, UDP_PAYLOAD_SIZE_IPV4)
       IN call' = [op |-> "canBeCombinedWith", this |-> this, other |-> packet,
                   result |-> c.result, thisAfter |-> c.this, otherAfter |-> c.packet]
  /\ UNCHANGED <<now, scenario, builder, dnsPacket>>

\* this.combineWithNextPacketIfPossible(next, udpPayloadSize) is called, next being
\* scheduled after this
CallCombineWithNext ==
  /\ call.op = "none"
  /\ \E this \in CallResponses, next \in CallResponses :
       /\ this.estimatedTimeToBeSent <= next.estimatedTimeToBeSent
       /\ LET c == combineWithNextPacketIfPossible(this, next, UDP_PAYLOAD_SIZE_IPV4)
          IN call' = [op |-> "combineWithNextPacketIfPossible", this |-> this, other |-> next,
                      result |-> c.result, thisAfter |-> c.this, otherAfter |-> c.next]
  /\ UNCHANGED <<now, scenario, builder, dnsPacket>>

NextCalls ==
  \/ CallCanBeCombinedWith /\ UNCHANGED <<proberVars, queueVars>>
  \/ CallCombineWithNext /\ UNCHANGED <<proberVars, queueVars>>

SpecCalls == Init /\ [][NextCalls]_vars

-----------------------------------------------------------------------------
(* Calls of createDNSQueryPackets and createDNSResponsePacketsFromRRSet *)

\* records of one name: three that fit a packet together only without a second question,
\* and one that no packet can hold
BuilderRecords == {Record(10, RTypeTXT, 100, 0, 1), Record(10, RTypeTXT, 600, 0, 2),
                   Record(10, RTypeTXT, 610, 0, 3), Record(10, RTypeTXT, 1500, 0, 4)}

\* the lists of up to MaxAnswers different records
RecordLists ==
  UNION {{l \in [1..n -> BuilderRecords] : \A j, k \in 1..n : l[j] = l[k] => j = k}
           : n \in 0..MaxAnswers}

\* no question, one, two, and more questions than a packet can hold
QuestionLists ==
  {<<>>, <<Question(10, RTypePTR)>>, <<Question(10, RTypePTR), Question(11, RTypePTR)>>,
   [k \in 1..(UDP_PAYLOAD_SIZE_IPV4 \div 40) |-> Question(10 + k, RTypePTR)]}

QueryDefinitions ==
  {[questions |-> q, answers |-> a] : q \in QuestionLists, a \in RecordLists}
    \cup {[questions |-> q] : q \in QuestionLists}

ProbeQueryDefinitions ==
  {[questions |-> q, authorities |-> a] : q \in QuestionLists, a \in RecordLists}

\* an undefined list of questions or additionals is the empty list here
ResponseDefinitions ==
  LET lists == {a \in RecordLists : Len(a) <= 2}
      rest == {[questions |-> q, answers |-> a, additionals |-> d, legacyUnicast |-> u]
                 : q \in {<<>>, <<Question(10, RTypePTR)>>}, a \in lists,
                   d \in {<<>>, <<Record(10, RTypeSRV, 6, 11, 5)>>}, u \in BOOLEAN}
  IN rest \cup {[id |-> id] @@ r : id \in {0, 7}, r \in rest}

\* createDNSQueryPackets(definition) is called and runs up to its loop
CallCreateDNSQueryPackets ==
  /\ builder.phase = "idle"
  /\ \E definition \in QueryDefinitions \cup ProbeQueryDefinitions :
       builder' = createDNSQueryPackets(definition, UDP_PAYLOAD_SIZE_IPV4)
  /\ UNCHANGED <<now, scenario, call, dnsPacket>>

\* the call makes a pass of its while loop
PassWhileLoop ==
  /\ builder.phase = "loop"
  /\ Len(builder.packets) < MaxPackets
  /\ builder' = WhileLoop(builder)
  /\ UNCHANGED <<now, scenario, call, dnsPacket>>

\* createDNSResponsePacketsFromRRSet(definition) is called
CallCreateDNSResponsePackets ==
  /\ builder.phase = "idle"
  /\ \E definition \in ResponseDefinitions :
       builder' = createDNSResponsePacketsFromRRSet(definition, UDP_PAYLOAD_SIZE_IPV4)
  /\ UNCHANGED <<now, scenario, call, dnsPacket>>

NextBuilder ==
  \/ CallCreateDNSQueryPackets /\ UNCHANGED <<proberVars, queueVars>>
  \/ PassWhileLoop /\ UNCHANGED <<proberVars, queueVars>>
  \/ CallCreateDNSResponsePackets /\ UNCHANGED <<proberVars, queueVars>>

SpecBuilder == Init /\ [][NextBuilder]_vars

-----------------------------------------------------------------------------
(* One DNSPacket under its mutators and its length reads *)

MaxRecords == 2

\* records are added while the estimate is at most this
MaxEstimate == 300

\* a resource record of a response, with its cache-flush bit and ttl
ResponseRecord(name, type, rdlen, target, tag, flushFlag, ttl) ==
  [name |-> name, type |-> type, rdlen |-> rdlen, target |-> target, tag |-> tag,
   flushFlag |-> flushFlag, ttl |-> ttl]

\* an address record of the host, the SRV record that names the host, a TXT record, a
\* longer TXT record of the same name, and the first TXT record again with another ttl
\* and no cache-flush bit
PacketRecords ==
  {ResponseRecord(2, RTypeA, 4, 0, 1, TRUE, 120),
   ResponseRecord(1, RTypeSRV, 6, 2, 2, TRUE, 120),
   ResponseRecord(1, RTypeTXT, 30, 0, 3, TRUE, 4500),
   ResponseRecord(1, RTypeTXT, 60, 0, 4, TRUE, 4500),
   ResponseRecord(1, RTypeTXT, 30, 0, 3, FALSE, 10)}

\* the packets a dnsPacket is combined with
CombinedPackets ==
  {[NewPacket(0, RESPONSE, [authoritativeAnswer |-> TRUE], l, <<r>>)
      EXCEPT !.questions = q] :
     l \in BOOLEAN, r \in PacketRecords, q \in {<<>>, <<Question(2, RTypeA)>>}}

NumRecords(p) == Len(AllRecords(p))

\* addQuestions, addAnswers, addAuthorities or addAdditionals with one record
AddRecords ==
  /\ NumRecords(dnsPacket) < MaxRecords
  /\ dnsPacket.estimatedEncodingLength <= MaxEstimate
  /\ \E section \in Sections :
       \E record \in (IF section = "questions" THEN {Question(2, RTypeA)} ELSE PacketRecords) :
         dnsPacket' = addRecords(dnsPacket, section, <<record>>)
  /\ UNCHANGED <<now, scenario, call, builder>>

ReplaceExistingAnswer ==
  /\ \E record \in PacketRecords :
       dnsPacket' = replaceExistingRecord(dnsPacket, "answers", record, 1).packet
  /\ UNCHANGED <<now, scenario, call, builder>>

ReplaceExistingAdditional ==
  /\ \E record \in PacketRecords :
       dnsPacket' = replaceExistingRecord(dnsPacket, "additionals", record, 1).packet
  /\ UNCHANGED <<now, scenario, call, builder>>

RemoveAboutSameAdditional ==
  /\ \E record \in PacketRecords :
       dnsPacket' = removeAboutSameRecord(dnsPacket, "additionals", record, 1)
  /\ UNCHANGED <<now, scenario, call, builder>>

SetLegacyUnicastEncoding ==
  /\ \E legacyUnicastEncoding \in BOOLEAN :
       dnsPacket' = setLegacyUnicastEncoding(dnsPacket, legacyUnicastEncoding)
  /\ UNCHANGED <<now, scenario, call, builder>>

CombineWith ==
  /\ \E other \in CombinedPackets :
       /\ NumRecords(dnsPacket) + NumRecords(other) <= MaxRecords
       /\ dnsPacket.estimatedEncodingLength <= MaxEstimate
       /\ dnsPacket' = combineWith(dnsPacket, other)
  /\ UNCHANGED <<now, scenario, call, builder>>

GetEncodingLength ==
  /\ dnsPacket' = getEncodingLength(dnsPacket).packet
  /\ UNCHANGED <<now, scenario, call, builder>>

GetEstimatedEncodingLength ==
  /\ dnsPacket' = getEstimatedEncodingLength(dnsPacket).packet
  /\ UNCHANGED <<now, scenario, call, builder>>

NextPacket ==
  \/ AddRecords /\ UNCHANGED <<proberVars, queueVars>>
  \/ ReplaceExistingAnswer /\ UNCHANGED <<proberVars, queueVars>>
  \/ ReplaceExistingAdditional /\ UNCHANGED <<proberVars, queueVars>>
  \/ RemoveAboutSameAdditional /\ UNCHANGED <<proberVars, queueVars>>
  \/ SetLegacyUnicastEncoding /\ UNCHANGED <<proberVars, queueVars>>
  \/ CombineWith /\ UNCHANGED <<proberVars, queueVars>>
  \/ GetEncodingLength /\ UNCHANGED <<proberVars, queueVars>>
  \/ GetEstimatedEncodingLength /\ UNCHANGED <<proberVars, queueVars>>

SpecPacket == Init /\ [][NextPacket]_vars

-----------------------------------------------------------------------------
(* Properties of the length cache of a dnsPacket *)

\* C24: whenever the dirty flag of a dnsPacket is clear, the cached length is the encoded
\* length of the dnsPacket as it is now, with its records and its legacy unicast setting.
CachedLengthIsReal ==
  ~dnsPacket.lengthDirty => dnsPacket.lastCalculatedLength = RealLength(dnsPacket)

\* the length was computed of a packet for legacy unicast, whose SRV record names a host
\* that a question before it names
CacheRefreshedReached ==
  /\ ~dnsPacket.lengthDirty
  /\ dnsPacket.legacyUnicastEncoding
  /\ dnsPacket.questions # <<>>
  /\ \E i \in 1..Len(dnsPacket.additionals) : dnsPacket.additionals[i].type = RTypeSRV

\* C25: the estimated encoding length of a dnsPacket is at least its encoded length.
EstimateIsUpperBound ==
  getEstimatedEncodingLength(dnsPacket).length >= RealLength(dnsPacket)

-----------------------------------------------------------------------------
(* Properties of the prober *)

NumPendingTimers == (IF timer # NoTimer THEN 1 ELSE 0) + BagCardinality(orphanTimers)

programVars == <<startTime, timer, orphanTimers, pendingSends, sentFirstProbeQuery,
                 sentQueries, records, nameIdx, promise>>

\* C1: with no inbound traffic the prober sends at most three probes, the first one
\* within [0, 250] ms of probe() and every later one exactly 250 ms after the previous
\* send completed; it reports success after exactly three probes and once the third
\* probe's interval has passed, and sends no fourth probe.  (A run that exceeds the
\* 60 s limit before the third probe completes ends in the timeout instead.)
ProbeSuccessScenario ==
  ~obs.inbound =>
    /\ obs.totalSent <= REQUIRED_PROBES
    /\ obs.totalSent = 1 => obs.lastGap \in 0..PROBE_INTERVAL
    /\ obs.totalSent > 1 => obs.lastGap = PROBE_INTERVAL
    /\ obs.successes > 0 => (promise = "resolved" /\ obs.totalSent = REQUIRED_PROBES /\ pendingSends = 0)
    /\ obs.rejects > 0 => now - startTime > MAX_PROBING_TIME
    /\ (obs.totalSent = REQUIRED_PROBES /\ pendingSends = 0 /\ NumPendingTimers = 0) => promise = "resolved"

ProbeSuccessReached ==
  /\ ~obs.inbound
  /\ promise = "resolved"
  /\ obs.totalSent = REQUIRED_PROBES
  /\ now - startTime = TickLength + REQUIRED_PROBES * PROBE_INTERVAL

\* C2: success is reported only after three probes for the current name have been sent
\* since probe() or the latest restart.
SuccessOnlyAfterThreeProbes ==
  obs.successes > 0 => obs.sentAtSuccess >= REQUIRED_PROBES

\* C3: a response that names the service and arrives while sentFirstProbeQuery is set
\* makes the prober request exactly one rename, reset the counter and the flag, arm no
\* timer and send probe #1 for the new name in the same callback, with freshly sorted
\* records; past the 60 s limit the restart ends in the timeout and sends nothing.
ConflictRestartsAtProbeOne ==
  [][(ev'.op = "handleResponse" /\ sentFirstProbeQuery) =>
       /\ nameIdx' = nameIdx + 1
       /\ sentQueries' = 0
       /\ ~sentFirstProbeQuery'
       /\ timer' = NoTimer
       /\ orphanTimers' = orphanTimers
       /\ records' = SortRecords(ServiceRecords(nameIdx'))
       /\ IF now - startTime > MAX_PROBING_TIME
          THEN /\ obs'.totalSent = obs.totalSent
               /\ pendingSends' = pendingSends
               /\ promise' # "pending"
          ELSE /\ obs'.totalSent = obs.totalSent + 1
               /\ pendingSends' = pendingSends + 1
               /\ obs'.sentSinceRestart = 1
               /\ obs'.firstProbeNo = 1
               /\ promise' = promise]_vars

ConflictRestartReached ==
  /\ ev.op = "handleResponse"
  /\ nameIdx = 1
  /\ obs.sentSinceRestart = 1
  /\ obs.firstProbeNo = 1
  /\ obs.totalSent = 3
  /\ timer = NoTimer
  /\ promise = "pending"

\* C4: after a lost tiebreak no probe is sent for 1 s, and the first probe sent then is
\* probe #1 under the name the service had at the loss.
TiebreakLossBacksOff ==
  obs.lossTime # NoTime =>
    /\ now < obs.lossTime + TIEBREAK_WAIT => obs.sentSinceRestart = 0
    /\ obs.sentSinceRestart > 0 => (obs.firstProbeNo = 1 /\ nameIdx = obs.lossName)

\* C5: at every moment at most one probe timer is pending and at most one probe send
\* awaits its callback.
StrictProbeSequence ==
  NumPendingTimers <= 1 /\ pendingSends <= 1

\* C6: while no probe has been sent since probe() or the latest restart, an inbound
\* response or query that names the service changes nothing and sends nothing.
InboundIgnoredBeforeFirstProbe ==
  [][(ev'.op \in {"handleResponse", "handleQuery"} /\ obs.sentSinceRestart = 0) =>
       (UNCHANGED programVars /\ obs'.totalSent = obs.totalSent)]_vars

EmptyAuthoritiesRename ==
  [][(ev'.op = "handleQuery" /\ ev'.noAuth /\ sentFirstProbeQuery) => nameIdx' = nameIdx + 1]_vars

\* C8 (amended): such a query is not dropped by the no-conflict return: the tiebreak is
\* run against the empty list.  No rename is requested and no probe is sent; either the
\* prober is left as it was (won) or it backs off for 1 s under the same name (lost).
EmptyAuthoritiesRunTiebreak ==
  [][(ev'.op = "handleQuery" /\ ev'.noAuth /\ sentFirstProbeQuery) =>
       /\ nameIdx' = nameIdx
       /\ obs'.totalSent = obs.totalSent
       /\ pendingSends' = pendingSends
       /\ records' = records
       /\ \/ UNCHANGED programVars
          \/ /\ obs'.losses = obs.losses + 1
             /\ timer' = now + TIEBREAK_WAIT
             /\ sentQueries' = 0
             /\ ~sentFirstProbeQuery']_vars

EmptyAuthoritiesReached ==
  /\ ev.op = "handleQuery"
  /\ ev.noAuth
  /\ sentFirstProbeQuery
  /\ obs.losses = 0
  /\ sentQueries = 2

\* C26: a query that names the service while sentFirstProbeQuery is set and that does not
\* end in a lost tiebreak (the prober wins, or the two sorted lists are identical, or the
\* authorities are about other names) changes no field of the prober and sends nothing:
\* counter, flag, timers, records, name and promise are as before.
TiebreakWonChangesNothing ==
  [][(ev'.op = "handleQuery" /\ sentFirstProbeQuery /\ obs'.losses = obs.losses) =>
       (UNCHANGED programVars /\ obs'.totalSent = obs.totalSent)]_vars

\* a query with authorities named the service after the second probe, and the prober
\* goes on
TiebreakWonReached ==
  /\ ev.op = "handleQuery" /\ ~ev.noAuth
  /\ sentFirstProbeQuery /\ sentQueries = 2 /\ timer # NoTimer
  /\ obs.losses = 0 /\ promise = "pending"

\* C29: once the promise of probe() is resolved or rejected the prober is quiescent: no
\* timer is pending, no probe has been sent since, and promiseResolve and promiseReject
\* have been called once between them.
QuiescentAfterOutcome ==
  promise \in {"resolved", "rejected"} =>
    /\ NumPendingTimers = 0
    /\ ~obs.sentAfterOutcome
    /\ obs.successes + obs.rejects = 1

\* C30: from the first probe on, and so at every probe sent and at every tiebreak (which
\* needs sentFirstProbeQuery, set by the callback of a probe), the records of the prober
\* are not empty, are in canonical order and are the records of the service under the
\* name it has now: a rename is followed in the same callback by their rebuilding.
RecordsOfCurrentName ==
  /\ (sentFirstProbeQuery \/ pendingSends > 0) => obs.totalSent > 0
  /\ obs.totalSent > 0 =>
       /\ records # <<>>
       /\ IsSorted(records)
       /\ records = SortRecords(ServiceRecords(nameIdx))

\* a query that names the renamed service arrives after a probe for the new name
RenamedRecordsReached ==
  /\ nameIdx = 1 /\ sentFirstProbeQuery /\ obs.sentSinceRestart > 1
  /\ ev.op = "handleQuery"

\* the clock is at the end of the values explored: timers are pending, none is due, no
\* send awaits its callback, and the next clock value is not explored
AtHorizon ==
  /\ PendingTimers # {} /\ pendingSends = 0
  /\ \A t \in PendingTimers : t > now
  /\ \A d \in TickSteps : ~InWindow(now + d) \/ (\E t \in PendingTimers : now + d > t)

\* C28: when every due timer fires, every send is acknowledged and the clock moves on,
\* a prober whose promise is pending always has a timer or a send callback pending, and
\* its promise is resolved or rejected in the end (within the clock values explored),
\* whatever responses and queries arrive.
ProbeSettles ==
  /\ [](promise = "pending" => (PendingTimers # {} \/ pendingSends > 0))
  /\ (promise = "pending" ~> (promise \in {"resolved", "rejected"} \/ AtHorizon))

\* the promise is rejected after a rename and a lost tiebreak
SettledAfterRestartsReached ==
  /\ promise = "rejected"
  /\ nameIdx = 1 /\ obs.losses = 1

-----------------------------------------------------------------------------
(* Properties of the response queue *)

\* C9: every response handed to the server is sent at most MAX_DELAY (500 ms) after the
\* creation of the earliest response whose records were merged into it.
QueueDelayBound ==
  qobs.sent # <<>> => qobs.sent[1].at - qobs.sent[1].earliest <= MAX_DELAY

\* a response that holds the records of merged responses is sent exactly MAX_DELAY after
\* the creation of the earliest of them
QueueDelayBoundReached ==
  /\ qobs.sent # <<>>
  /\ Len(qobs.sent[1].answers) > 1
  /\ qobs.sent[1].at - qobs.sent[1].earliest = MAX_DELAY

\* C10 (as claimed): a response merged into another one (delayed is set) has no pending
\* timer, right after the merge and ever after, and its send callback is never invoked,
\* whichever of scheduleResponse and the combine is called first.
MergedNeverTransmitted ==
  /\ ~qobs.cancelledRan
  /\ \A id \in 1..Len(responses) : responses[id].delayed => responses[id].timer = NoTimer
  /\ qobs.merged # <<>> => (qobs.merged[1].delayed /\ qobs.merged[1].timer = NoTimer)

\* C10 (amended): when the combine returns true the merged response has delayed set and
\* no pending timer; a timer is pending on a merged response, and its callback runs, only
\* if scheduleResponse was called on it after the merge.
MergedTimerCancelled ==
  /\ qobs.merged # <<>> => (qobs.merged[1].delayed /\ qobs.merged[1].timer = NoTimer)
  /\ \A id \in 1..Len(responses) :
       (responses[id].delayed /\ responses[id].timer # NoTimer) => responses[id].scheduledAfterMerge
  /\ \A id \in 1..Len(responses) : responses[id].scheduledAfterMerge => responses[id].delayed

\* a response that was scheduled is merged away: its timer is gone
MergedTimerCancelledReached ==
  /\ qobs.merged # <<>>
  /\ qobs.merged[1].hadTimer
  /\ qobs.merged[1].delayed
  /\ qobs.merged[1].timer = NoTimer

\* C21: whatever merges went before, the time of creation of a response is that of the
\* earliest response whose records its packet holds, and never later than the time the
\* response itself was created; so getTotalDelay is the delay of the record that has
\* waited longest.
MergedCreationIsMinimum ==
  \A id \in 1..Len(responses) :
    /\ responses[id].timeOfCreation = responses[id].earliest
    /\ responses[id].timeOfCreation <= responses[id].estimatedTimeToBeSent - responses[id].delay
    /\ getTotalDelay(responses[id]) = now - responses[id].earliest

\* a response waits that holds the records of a response that itself held merged records:
\* its time of creation is earlier than that of any response it can have met in the queue
MergeChainReached ==
  \E id \in 1..Len(responses) :
    /\ responses[id].queued /\ ~responses[id].delayed
    /\ Len(responses[id].packet.answers) > 2
    /\ responses[id].estimatedTimeToBeSent - responses[id].delay - responses[id].timeOfCreation
         > 2 * QueueTick

-----------------------------------------------------------------------------
(* Properties of combineWithNextPacketIfPossible and canBeCombinedWith *)

Combined == call.op = "combineWithNextPacketIfPossible"

\* C11, as stated: combineWithNextPacketIfPossible merges no records from or into a
\* response whose delayed flag is already set.
CancelledNeverMerged ==
  (Combined /\ call.result) => (~call.this.delayed /\ ~call.other.delayed)

\* C11, amended: combineWithNextPacketIfPossible does not read the delayed flag.  It
\* merges exactly when the two responses are of one interface and the packets can be
\* combined, whatever the flags say; a merge appends the records of this to the packet
\* of next, marks this as delayed with no timer pending, and leaves the flag of next as
\* it was; a refused merge moves no record and changes no flag.
CombineIgnoresCancelledFlag ==
  Combined =>
    /\ call.result <=>
         /\ call.this.interfaceName = call.other.interfaceName
         /\ canBeCombinedWith(call.other.packet, call.this.packet, UDP_PAYLOAD_SIZE_IPV4).result
    /\ call.otherAfter.delayed = call.other.delayed
    /\ call.thisAfter.packet.answers = call.this.packet.answers
    /\ call.result =>
         /\ call.thisAfter.delayed /\ call.thisAfter.timer = NoTimer
         /\ call.otherAfter.packet.answers = call.other.packet.answers \o call.this.packet.answers
    /\ ~call.result =>
         /\ call.thisAfter.delayed = call.this.delayed
         /\ call.otherAfter.packet.answers = call.other.packet.answers

\* a response that was not delayed is merged into one that is
MergedIntoCancelled ==
  Combined /\ call.result /\ ~call.this.delayed /\ call.other.delayed

SameHeader(a, b) ==
  /\ a.id = b.id /\ a.type = b.type /\ a.opcode = b.opcode /\ a.rcode = b.rcode
  /\ a.flags = b.flags

\* C22: combineWithNextPacketIfPossible never merges responses of different interfaces,
\* and when it returns false (the interfaces differ or the packets cannot be combined)
\* both responses keep their records, time of creation, timer and delayed flag.
RefusedMergeChangesNothing ==
  Combined =>
    /\ call.this.interfaceName # call.other.interfaceName => ~call.result
    /\ ~call.result =>
         /\ \A s \in Sections : /\ call.thisAfter.packet[s] = call.this.packet[s]
                                 /\ call.otherAfter.packet[s] = call.other.packet[s]
         /\ call.thisAfter.packet.legacyUnicastEncoding = call.this.packet.legacyUnicastEncoding
         /\ call.otherAfter.packet.legacyUnicastEncoding = call.other.packet.legacyUnicastEncoding
         /\ call.thisAfter.timeOfCreation = call.this.timeOfCreation
         /\ call.otherAfter.timeOfCreation = call.other.timeOfCreation
         /\ call.thisAfter.timer = call.this.timer /\ call.otherAfter.timer = call.other.timer
         /\ call.thisAfter.delayed = call.this.delayed
         /\ call.otherAfter.delayed = call.other.delayed

\* a merge of a scheduled response is refused for the size of the packets
RefusedMergeReached ==
  /\ Combined /\ ~call.result
  /\ call.this.interfaceName = call.other.interfaceName
  /\ call.this.timer # NoTimer

\* C23: a merge appends to each section of the packet of next, the later scheduled
\* response, the records of that section of the packet of this, in their order; the
\* packet of next is encoded for legacy unicast if either packet was; its header is as
\* before, and the sections, the header and the encoding of the packet of this are as
\* before.
CombineWithAppends ==
  (Combined /\ call.result) =>
    /\ call.this.estimatedTimeToBeSent <= call.other.estimatedTimeToBeSent
    /\ \A s \in Sections : /\ call.otherAfter.packet[s] = call.other.packet[s] \o call.this.packet[s]
                            /\ call.thisAfter.packet[s] = call.this.packet[s]
    /\ call.otherAfter.packet.legacyUnicastEncoding
         = (call.other.packet.legacyUnicastEncoding \/ call.this.packet.legacyUnicastEncoding)
    /\ call.thisAfter.packet.legacyUnicastEncoding = call.this.packet.legacyUnicastEncoding
    /\ SameHeader(call.otherAfter.packet, call.other.packet)
    /\ SameHeader(call.thisAfter.packet, call.this.packet)

\* a packet with questions and additionals, encoded for legacy unicast, is appended to a
\* packet with questions and authorities that was not
CombineWithReached ==
  /\ Combined /\ call.result
  /\ call.this.packet.legacyUnicastEncoding /\ ~call.other.packet.legacyUnicastEncoding
  /\ call.this.packet.additionals # <<>> /\ call.other.packet.authorities # <<>>
  /\ Len(call.otherAfter.packet.questions) = 2


CombineOnlyInTimelyManner ==
  (Combined /\ call.result) => delayWouldBeInTimelyManner(call.this, call.other)
-----------------------------------------------------------------------------
(* Properties of the coalescing scenario *)

ScenarioOver == scenario.enqueued = Len(ScenarioArrivals) /\ responses = <<>>

Max(a, b) == IF a > b THEN a ELSE b

\* C13, as stated: whatever the two delays, the scenario ends with exactly one
\* transmission; it carries the answers of A and of B, it is sent at 120 ms at the latest,
\* and the time of creation of B after the merge is 0.
CoalescingScenario ==
  ScenarioOver =>
    /\ Len(scenario.sent) = 1
    /\ {scenario.sent[1].answers[i] : i \in 1..Len(scenario.sent[1].answers)}
         = {ScenarioRecords[1], ScenarioRecords[2]}
    /\ scenario.sent[1].at <= 120
    /\ scenario.timeOfCreation = 0

\* C13, amended: with delays dA and dB, A is still waiting when B is enqueued if
\* dA > 30, is not if dA < 30, and either can be the case if dA = 30.  If A is not
\* waiting there are two transmissions, A alone at dA and B alone at 30 + dB.  If A is
\* waiting there is exactly one transmission, at the later of dA and 30 + dB (so before
\* 150 ms); it carries the answer of the later scheduled response followed by the answer
\* of the other, and its time of creation is 0.  The time of creation of B becomes 0
\* when B is the later scheduled one (30 + dB >= dA) and stays 30 otherwise.
CoalescingOutcome ==
  ScenarioOver =>
    LET dA == scenario.delays[1]
        dB == scenario.delays[2]
        laterB == ScenarioArrivals[2] + dB >= dA
    IN /\ dA > ScenarioArrivals[2] => scenario.waiting
       /\ dA < ScenarioArrivals[2] => ~scenario.waiting
       /\ ~scenario.waiting =>
            /\ Len(scenario.sent) = 2
            /\ scenario.sent[1].at = dA /\ scenario.sent[1].answers = <<ScenarioRecords[1]>>
            /\ scenario.sent[2].at = ScenarioArrivals[2] + dB
            /\ scenario.sent[2].answers = <<ScenarioRecords[2]>>
            /\ scenario.timeOfCreation = ScenarioArrivals[2]
       /\ scenario.waiting =>
            /\ Len(scenario.sent) = 1
            /\ scenario.sent[1].at = Max(dA, ScenarioArrivals[2] + dB)
            /\ scenario.sent[1].at < ScenarioArrivals[2] + 120
            /\ scenario.sent[1].earliest = 0
            /\ scenario.sent[1].answers = IF laterB THEN <<ScenarioRecords[2], ScenarioRecords[1]>>
                                          ELSE <<ScenarioRecords[1], ScenarioRecords[2]>>
            /\ scenario.timeOfCreation = IF laterB THEN 0 ELSE ScenarioArrivals[2]

\* the scenario has ended with A and B sent in one packet
CoalescedReached ==
  ScenarioOver /\ scenario.waiting /\ Len(scenario.sent) = 1
-----------------------------------------------------------------------------
(* Properties of createDNSQueryPackets and createDNSResponsePacketsFromRRSet *)

\* the answers the packets carry, first packet first
RECURSIVE AnswersOf(_)
AnswersOf(packets) ==
  IF packets = <<>> THEN <<>> ELSE Head(packets).answers \o AnswersOf(Tail(packets))

Building(op) == builder.phase \in {"loop", "returned"} /\ builder.op = op

\* C27: createDNSQueryPackets returns: every pass of its while loop that does not end
\* the call has taken at least one more known answer, so the answers run out.
EveryPassTakesAnAnswer ==
  [][(Building("query") /\ builder.phase = "loop" /\ builder'.phase = "loop") =>
       builder'.i > builder.i]_vars

\* C14: the packets createDNSQueryPackets makes for a query with known answers carry
\* every known answer exactly once; once the call has returned, their answers taken in
\* order are the known answers sorted ascending on their uncompressed length, the first
\* packet holds all the questions and no other packet holds one.
KnownAnswersCarriedOnce ==
  Building("query") =>
    LET carried == AnswersOf(builder.packets)
    IN /\ \A j, k \in 1..Len(carried) : carried[j] = carried[k] => j = k
       /\ builder.phase = "returned" =>
            /\ carried = SortByLength(builder.definition.answers)
            /\ builder.packets[1].questions = builder.definition.questions
            /\ \A k \in 2..Len(builder.packets) : builder.packets[k].questions = <<>>

\* C15: of the packets createDNSQueryPackets makes, every one but the last has the
\* truncation flag set and the last has it clear; and a pass of the loop starts a new
\* packet only when the next answer does not fit the packet being filled.
ContinuationOnlyWhenFull ==
  [][(builder'.phase \in {"loop", "returned"} /\ builder'.op = "query") =>
       /\ \A k \in 1..Len(builder'.packets) : Truncated(builder'.packets[k]) <=> k < Len(builder'.packets)
       /\ (builder.phase = "loop" /\ Len(builder'.packets) > Len(builder.packets)) =>
            LET filled == builder'.packets[Len(builder.packets)]
            IN RealLength(filled) + UncompressedLength(builder'.answers[builder'.i])
                 > builder'.udpPayloadSize]_vars

OversizeRecordAlone ==
  Building("query") =>
    \A k \in 1..Len(builder.added) :
      ~builder.added[k].fits => builder.added[k].questions = 0 /\ builder.added[k].answers = 0
\* C19: for a probe query createDNSQueryPackets makes one packet, which holds all the
\* questions and all the authorities in the order given, and nothing else; the call
\* fails exactly when that packet encodes, names compressed, to more than the payload
\* size, and never starts a second packet.
ProbeQueryNeverSplit ==
  (builder.phase # "idle" /\ builder.op = "probe") =>
    LET whole == [NewPacket(0, QUERY, NoFlags, FALSE, <<>>)
                    EXCEPT !.questions = builder.definition.questions,
                           !.authorities = builder.definition.authorities]
    IN /\ builder.phase \in {"returned", "failed"}
       /\ builder.phase = "failed" <=> RealLength(whole) > builder.udpPayloadSize
       /\ Len(builder.packets) = 1
       /\ builder.phase = "returned" =>
            /\ builder.packets[1].questions = builder.definition.questions
            /\ builder.packets[1].authorities = builder.definition.authorities
            /\ builder.packets[1].answers = <<>> /\ builder.packets[1].additionals = <<>>
            /\ builder.packets[1].type = QUERY /\ ~Truncated(builder.packets[1])

\* a probe query with a question and several authorities is returned
ProbeQueryReached ==
  /\ builder.phase = "returned" /\ builder.op = "probe"
  /\ Len(builder.packets[1].questions) = 1 /\ Len(builder.packets[1].authorities) > 1

\* C20: createDNSResponsePacketsFromRRSet makes one packet: a response with the
\* authoritative answer flag set, the id of the definition (0 when it has none) and the
\* questions, answers and additionals of the definition; the call fails exactly when the
\* packet encodes to more than the payload size.
ResponsePacketFromRRSet ==
  (builder.phase # "idle" /\ builder.op = "response") =>
    LET packet == builder.packets[1]
        definition == builder.definition
    IN /\ Len(builder.packets) = 1
       /\ packet.type = RESPONSE
       /\ "authoritativeAnswer" \in DOMAIN packet.flags /\ packet.flags.authoritativeAnswer
       /\ packet.id = IF "id" \in DOMAIN definition THEN definition.id ELSE 0
       /\ packet.questions = definition.questions /\ packet.answers = definition.answers
       /\ packet.additionals = definition.additionals /\ packet.authorities = <<>>
       /\ builder.phase \in {"returned", "failed"}
       /\ builder.phase = "failed" <=> RealLength(packet) > builder.udpPayloadSize

\* a response to a unicast query, with the id and the question of the query, is returned
ResponsePacketReached ==
  /\ builder.phase = "returned" /\ builder.op = "response"
  /\ builder.packets[1].id = 7 /\ builder.packets[1].questions # <<>>
  /\ builder.packets[1].answers # <<>>
====
